---- MODULE Spec2Model ----
(***************************************************************************)
(* Model of vpn2.cc: the Encrypt / Decrypt placeholder transform and the   *)
(* simulation that main() sets up (two CSMA LANs joined by the routers     *)
(* r0 - r1 - r2 over two point-to-point links, one UDP echo exchange).     *)
(*                                                                         *)
(* Two specifications:                                                     *)
(*   Spec       the run of main(): the event queue of the simulator, the   *)
(*              packets on each channel, the applications.                 *)
(*   SpecXform  the Encrypt / Decrypt classes driven on 16-bit inputs.     *)
(* Time is in milliseconds.  Address resolution (ARP) and serialization    *)
(* time are not modelled: every frame takes the channel's Delay.           *)
(***************************************************************************)
EXTENDS Integers, Sequences, FiniteSets

VARIABLES
    now,            \* Simulator::Now(), ms
    queue,          \* pending events of the simulator
    nextUid,        \* uid the next scheduled event gets (insertion order)
    fired,          \* history: the events executed, in order
    done,           \* Simulator::Run() has returned
    fill,           \* payload of the client's datagram (SetFill)
    sent,           \* UdpEchoClient m_sent
    appUp,          \* per application: between StartApplication and StopApplication
    carried,        \* per channel: the frames put on it, in order
    delivered,      \* per application: the payloads its receive callback got
    hops,           \* history: the forwarding decisions taken, in order
    ops,            \* per node: the kinds of packet operation it performed
    sa,             \* per gateway: the Encrypt / Decrypt objects it holds
    phase,          \* SpecXform: "new" before EncryptData, "enc" after
    encIn,          \* SpecXform: the arguments EncryptData was called with
    securePayload,  \* Encrypt::securePayload
    decOut          \* SpecXform: what each DecryptData call returned, in order

netVars == <<now, queue, nextUid, fired, done, fill, sent, appUp, carried,
             delivered, hops, ops, sa>>
xformVars == <<phase, encIn, securePayload, decOut>>
vars == <<now, queue, nextUid, fired, done, fill, sent, appUp, carried,
          delivered, hops, ops, sa, phase, encIn, securePayload, decOut>>

----------------------------------------------------------------------------
(* Bounds of the model *)

MaxPayload == 7
DataSpan == 3
MaxKey == 1
MaxPresent == 2

(* Program constants *)

EncryptKey == 123
DecryptKey == 123
CsmaDelay == 2
P2pDelay == 2
ServerPort == 9
ServerStart == 1
ServerStop == 10
ClientStart == 2
ClientStop == 10
MaxPackets == 1
Interval == 1
SimStop == 20

Word == 2 ^ 16
Seconds(s) == s * 1000
MilliSeconds(m) == m

----------------------------------------------------------------------------
(* The placeholder transform *)

\* Encrypt::EncryptData stores data + key in a u_int16_t: the sum is taken
\* in int and truncated to 16 bits.  The parameter key hides the member key.
EncryptDataNoWrap(data, key) == data + key
EncryptData(data, key) == (data + key) % Word

\* Decrypt::DecryptData returns securePayload - key as uint16_t, key being
\* the member Decrypt::key.  It keeps no state and has no failure path.
DecryptData(sp) == (sp - DecryptKey) % Word

\* 16-bit inputs: the low end, the values around Word - key (where data + key
\* starts to wrap) and the high end.
Data ==
    (0 .. DataSpan)
    \cup ((Word - EncryptKey - DataSpan) .. (Word - EncryptKey + DataSpan))
    \cup ((Word - 1 - DataSpan) .. (Word - 1))
Keys == {EncryptKey} \cup (0 .. MaxKey) \cup {Word - 1}
\* Encrypt::securePayload has no initializer: its value before the first
\* EncryptData is indeterminate.
Indeterminate == {0, Word - 1}
NoInput == [data |-> 0, key |-> 0]

----------------------------------------------------------------------------
(* Topology and addresses (SECTION 1 and 2 of main) *)

Nodes == {"n0", "n1", "n2", "n3", "n4", "n5", "r0", "r1", "r2"}
Gateways == {"r0", "r2"}
Lans == {"lan1", "lan2"}
Transit == {"link1", "link2"}
Channels == Lans \cup Transit

\* The devices of each channel, in the order they were installed.
Attached ==
    [lan1 |-> <<"n0", "n1", "n2", "r0">>,
     lan2 |-> <<"n3", "n4", "n5", "r2">>,
     link1 |-> <<"r0", "r1">>,
     link2 |-> <<"r1", "r2">>]

ChannelDelay(c) == IF c \in Lans THEN MilliSeconds(CsmaDelay) ELSE MilliSeconds(P2pDelay)

\* Ipv4AddressHelper::Assign numbers the devices of a channel 1, 2, ...
Address(net, host) == [net |-> net, host |-> host]
NoAddr == Address("none", 0)
Range(s) == {s[i] : i \in DOMAIN s}
Owns(n, a) ==
    /\ a.net \in Channels
    /\ a.host \in DOMAIN Attached[a.net]
    /\ Attached[a.net][a.host] = n
HostAt(a) == Attached[a.net][a.host]

serverAddress == Address("lan1", 1)
clientAddress == Address("lan2", 3)
ServerNode == "n0"
ClientNode == "n5"

Apps == {"server", "client"}
AppNode(a) == IF a = "server" THEN ServerNode ELSE ClientNode

----------------------------------------------------------------------------
(* Static routes (Ipv4GlobalRoutingHelper::PopulateRoutingTables) *)

OnChannel(n, c) == n \in Range(Attached[c])

\* The route of node n to subnet net: the channel to send on and the router
\* to hand the packet to ("direct": the destination is on that channel).
Route(n, net) ==
    IF OnChannel(n, net) THEN [link |-> net, via |-> "direct"]
    ELSE CASE n \in {"n0", "n1", "n2"} -> [link |-> "lan1", via |-> "r0"]
           [] n \in {"n3", "n4", "n5"} -> [link |-> "lan2", via |-> "r2"]
           [] n = "r0" -> [link |-> "link1", via |-> "r1"]
           [] n = "r2" -> [link |-> "link2", via |-> "r1"]
           [] n = "r1" -> IF net = "lan1"
                          THEN [link |-> "link1", via |-> "r0"]
                          ELSE [link |-> "link2", via |-> "r2"]

NoRoute == [link |-> "none", to |-> "none"]
Routable(a) == a.net \in Channels /\ a.host \in DOMAIN Attached[a.net]

\* The forwarding decision of node n for packet p: the channel and the next
\* hop, from the destination address alone.
ForwardInspectsPayload(n, p) ==
    IF ~Routable(p.dst) \/ p.payload % 2 = 1 THEN NoRoute
    ELSE LET r == Route(n, p.dst.net)
         IN  [link |-> r.link,
              to |-> IF r.via = "direct" THEN HostAt(p.dst) ELSE r.via]
Forward(n, p) ==
    IF ~Routable(p.dst) THEN NoRoute
    ELSE LET r == Route(n, p.dst.net)
         IN  [link |-> r.link,
              to |-> IF r.via = "direct" THEN HostAt(p.dst) ELSE r.via]

----------------------------------------------------------------------------
(* The simulator's event queue *)

NoPkt == [src |-> NoAddr, dst |-> NoAddr, port |-> 0, payload |-> 0, to |-> "none"]
Event(ts, uid, kind, node, link, pkt) ==
    [ts |-> ts, uid |-> uid, kind |-> kind, node |-> node, link |-> link, pkt |-> pkt]

\* The order events are executed in: by timestamp, then by insertion (uid).
EarlierLifo(e, f) == e.ts < f.ts \/ (e.ts = f.ts /\ e.uid > f.uid)
Earlier(e, f) == e.ts < f.ts \/ (e.ts = f.ts /\ e.uid < f.uid)

NextEvent == CHOOSE e \in queue : \A f \in queue \ {e} : Earlier(e, f)
Running == ~done /\ queue # {}

\* A channel hands a frame to every attached device but the sender, Delay
\* later; the receivers are scheduled in attachment order.
Receivers(c, from) == SelectSeq(Attached[c], LAMBDA n : n # from)
Frames(c, from, p, t, uid0) ==
    {Event(t + ChannelDelay(c), uid0 + i - 1, "Receive", Receivers(c, from)[i], c, p) :
        i \in DOMAIN Receivers(c, from)}

\* Events in the queue when Simulator::Run starts: the stop event of
\* Simulator::Stop, then each application's start and stop, in node order.
InitialEvents ==
    {Event(Seconds(SimStop), 0, "Stop", "none", "none", NoPkt),
     Event(Seconds(ServerStart), 1, "StartApplication", ServerNode, "none", NoPkt),
     Event(Seconds(ServerStop), 2, "StopApplication", ServerNode, "none", NoPkt),
     Event(Seconds(ClientStart), 3, "StartApplication", ClientNode, "none", NoPkt),
     Event(Seconds(ClientStop), 4, "StopApplication", ClientNode, "none", NoPkt)}

Payloads == 0 .. MaxPayload

InitNet(f) ==
    /\ now = 0
    /\ queue = InitialEvents
    /\ nextUid = Cardinality(InitialEvents)
    /\ fired = << >>
    /\ done = FALSE
    /\ fill = f
    /\ sent = 0
    /\ appUp = [a \in Apps |-> FALSE]
    /\ carried = [c \in Channels |-> << >>]
    /\ delivered = [a \in Apps |-> << >>]
    /\ hops = << >>
    /\ ops = [n \in Nodes |-> {}]
    /\ sa = [g \in Gateways |-> {}]

InitXform ==
    /\ phase = "new"
    /\ encIn = NoInput
    /\ securePayload \in Indeterminate
    /\ decOut = << >>

\* main() constructs no Encrypt and no Decrypt object.
NoXform ==
    /\ phase = "none"
    /\ encIn = NoInput
    /\ securePayload = 0
    /\ decOut = << >>

Init == (\E f \in Payloads : InitNet(f)) /\ NoXform

----------------------------------------------------------------------------
(* Simulator::Run: one action per kind of event *)

\* Executing event e: it leaves the queue and the clock moves to its time.
Fire(e) ==
    /\ now' = e.ts
    /\ fired' = Append(fired, [ts |-> e.ts, uid |-> e.uid, kind |-> e.kind])

Did(n, what) == ops' = [ops EXCEPT ![n] = @ \cup what]

\* Node n sends packet p (its own, or one it forwards) while executing e:
\* the route gives the channel and the next hop, the frame goes on the
\* channel.  With resched, the sender schedules its next Send afterwards.
\* A packet without a route is dropped.
SendOut(e, n, p, resched) ==
    LET r == Forward(n, p)
        f == [p EXCEPT !.to = r.to]
        fr == IF r = NoRoute THEN {} ELSE Frames(r.link, n, f, e.ts, nextUid)
        again == IF resched
                 THEN {Event(e.ts + Seconds(Interval), nextUid + Cardinality(fr),
                             "Send", n, "none", NoPkt)}
                 ELSE {}
    IN  /\ queue' = ((queue \ {e}) \cup fr) \cup again
        /\ nextUid' = nextUid + Cardinality(fr) + Cardinality(again)
        /\ carried' = IF r = NoRoute THEN carried
                      ELSE [carried EXCEPT ![r.link] = Append(@, f)]

\* UdpEchoServer::StartApplication: the server listens on its port.
StartServer ==
    /\ Running
    /\ NextEvent.kind = "StartApplication" /\ NextEvent.node = ServerNode
    /\ Fire(NextEvent)
    /\ queue' = queue \ {NextEvent}
    /\ appUp' = [appUp EXCEPT !["server"] = TRUE]
    /\ UNCHANGED <<nextUid, done, fill, sent, carried, delivered, hops, ops, sa>>
    /\ UNCHANGED xformVars

\* UdpEchoClient::StartApplication: schedules the first Send with no delay.
StartClient ==
    /\ Running
    /\ NextEvent.kind = "StartApplication" /\ NextEvent.node = ClientNode
    /\ Fire(NextEvent)
    /\ queue' = (queue \ {NextEvent}) \cup
                {Event(NextEvent.ts, nextUid, "Send", ClientNode, "none", NoPkt)}
    /\ nextUid' = nextUid + 1
    /\ appUp' = [appUp EXCEPT !["client"] = TRUE]
    /\ UNCHANGED <<done, fill, sent, carried, delivered, hops, ops, sa>>
    /\ UNCHANGED xformVars

\* UdpEchoClient::Send: one datagram holding the fill to the server's
\* address and port; another Send after Interval while fewer than
\* MaxPackets were sent.
ClientSend ==
    /\ Running
    /\ NextEvent.kind = "Send"
    /\ Fire(NextEvent)
    /\ SendOut(NextEvent, ClientNode,
               [src |-> clientAddress, dst |-> serverAddress,
                port |-> ServerPort, payload |-> fill, to |-> "none"],
               sent + 1 < MaxPackets)
    /\ sent' = sent + 1
    /\ Did(ClientNode, {"send"})
    /\ UNCHANGED <<done, fill, appUp, delivered, hops, sa>>
    /\ UNCHANGED xformVars

\* A CSMA device that is not the frame's destination discards it.
ReceiveFiltered ==
    /\ Running
    /\ NextEvent.kind = "Receive" /\ NextEvent.pkt.to # NextEvent.node
    /\ Fire(NextEvent)
    /\ queue' = queue \ {NextEvent}
    /\ Did(NextEvent.node, {"filter"})
    /\ UNCHANGED <<nextUid, done, fill, sent, appUp, carried, delivered, hops, sa>>
    /\ UNCHANGED xformVars

\* A node receives a packet for another node: it forwards it by its route
\* to the destination address.  The payload is passed on as it came.
ReceiveForward ==
    /\ Running
    /\ NextEvent.kind = "Receive" /\ NextEvent.pkt.to = NextEvent.node
    /\ ~Owns(NextEvent.node, NextEvent.pkt.dst)
    /\ Fire(NextEvent)
    /\ SendOut(NextEvent, NextEvent.node, NextEvent.pkt, FALSE)
    /\ hops' = Append(hops, [node |-> NextEvent.node, pkt |-> NextEvent.pkt,
                             out |-> Forward(NextEvent.node, NextEvent.pkt)])
    /\ Did(NextEvent.node, {"forward"})
    /\ UNCHANGED <<done, fill, sent, appUp, delivered, sa>>
    /\ UNCHANGED xformVars

\* UdpEchoServer::HandleRead: the datagram reaches the listening server,
\* which sends the same payload back to the sender.  Without a listener on
\* the port the datagram is dropped.
ServerReceive ==
    /\ Running
    /\ NextEvent.kind = "Receive" /\ NextEvent.pkt.to = NextEvent.node
    /\ Owns(NextEvent.node, NextEvent.pkt.dst)
    /\ NextEvent.node # ClientNode
    /\ Fire(NextEvent)
    /\ IF NextEvent.node = ServerNode /\ appUp["server"] /\ NextEvent.pkt.port = ServerPort
       THEN /\ delivered' = [delivered EXCEPT !["server"] = Append(@, NextEvent.pkt.payload)]
            /\ SendOut(NextEvent, ServerNode,
                       [src |-> NextEvent.pkt.dst, dst |-> NextEvent.pkt.src,
                        port |-> ServerPort, payload |-> NextEvent.pkt.payload,
                        to |-> "none"],
                       FALSE)
            /\ Did(ServerNode, {"deliver", "send"})
       ELSE /\ queue' = queue \ {NextEvent}
            /\ UNCHANGED <<nextUid, carried, delivered, ops>>
    /\ UNCHANGED <<done, fill, sent, appUp, hops, sa>>
    /\ UNCHANGED xformVars

\* UdpEchoClient::HandleRead: the echo reaches the client.
ClientReceive ==
    /\ Running
    /\ NextEvent.kind = "Receive" /\ NextEvent.pkt.to = NextEvent.node
    /\ Owns(NextEvent.node, NextEvent.pkt.dst)
    /\ NextEvent.node = ClientNode
    /\ Fire(NextEvent)
    /\ queue' = queue \ {NextEvent}
    /\ IF appUp["client"] /\ NextEvent.pkt.src = serverAddress /\ NextEvent.pkt.port = ServerPort
       THEN /\ delivered' = [delivered EXCEPT !["client"] = Append(@, NextEvent.pkt.payload)]
            /\ Did(ClientNode, {"deliver"})
       ELSE UNCHANGED <<delivered, ops>>
    /\ UNCHANGED <<nextUid, done, fill, sent, appUp, carried, hops, sa>>
    /\ UNCHANGED xformVars

\* StopApplication: the application stops; the client cancels a pending Send.
StopApplication ==
    /\ Running
    /\ NextEvent.kind = "StopApplication"
    /\ Fire(NextEvent)
    /\ queue' = {e \in queue \ {NextEvent} :
                    ~(NextEvent.node = ClientNode /\ e.kind = "Send")}
    /\ appUp' = [a \in Apps |-> IF AppNode(a) = NextEvent.node THEN FALSE ELSE appUp[a]]
    /\ UNCHANGED <<nextUid, done, fill, sent, carried, delivered, hops, ops, sa>>
    /\ UNCHANGED xformVars

\* The event of Simulator::Stop: Run returns, later events are not executed.
SimulatorStop ==
    /\ Running
    /\ NextEvent.kind = "Stop"
    /\ Fire(NextEvent)
    /\ queue' = queue \ {NextEvent}
    /\ done' = TRUE
    /\ UNCHANGED <<nextUid, fill, sent, appUp, carried, delivered, hops, ops, sa>>
    /\ UNCHANGED xformVars

Next ==
    \/ StartServer
    \/ StartClient
    \/ ClientSend
    \/ ReceiveFiltered
    \/ ReceiveForward
    \/ ServerReceive
    \/ ClientReceive
    \/ StopApplication
    \/ SimulatorStop

Spec == Init /\ [][Next]_vars

----------------------------------------------------------------------------
(* The Encrypt and Decrypt classes, called on 16-bit inputs *)

InitX == InitNet(0) /\ InitXform

\* Encrypt::EncryptData(data, key)
EncryptCall ==
    /\ phase = "new"
    /\ \E d \in Data, k \in Keys :
        /\ securePayload' = EncryptData(d, k)
        /\ encIn' = [data |-> d, key |-> k]
    /\ phase' = "enc"
    /\ UNCHANGED decOut
    /\ UNCHANGED netVars

\* Decrypt::DecryptData on the value Encrypt stored; the same value may be
\* presented again.
DecryptCall ==
    /\ phase = "enc"
    /\ Len(decOut) < MaxPresent
    /\ decOut' = Append(decOut, DecryptData(securePayload))
    /\ UNCHANGED <<phase, encIn, securePayload>>
    /\ UNCHANGED netVars

NextX == EncryptCall \/ DecryptCall

SpecXform == InitX /\ [][NextX]_vars

----------------------------------------------------------------------------
(* Properties of the run of main() *)

Peer(g) == IF g = "r0" THEN "r2" ELSE "r0"
Directions == {"outbound", "inbound"}

\* C1: at the end of the run the server's receive callback has fired exactly
\* once with the original payload, each transit link has carried exactly one
\* frame and its payload differs from the original, and both LANs have
\* carried the original payload.
C1_EndToEndConfidential ==
    done =>
        /\ delivered["server"] = <<fill>>
        /\ \A c \in Transit :
            /\ Len(carried[c]) = 1
            /\ carried[c][1].payload # fill
        /\ \A c \in Lans : \E i \in DOMAIN carried[c] : carried[c][i].payload = fill

\* C7: at the end of the run each gateway holds exactly one outbound and one
\* inbound SA for its peer gateway.
C7_OneSAPerPeerAndDirection ==
    done =>
        \A g \in Gateways : \A d \in Directions :
            Cardinality({x \in sa[g] : x.peer = Peer(g) /\ x.direction = d}) = 1

C6_EventsFireInTimestampThenInsertionOrder ==
    /\ \A i, j \in DOMAIN fired :
        i < j => \/ fired[i].ts < fired[j].ts
                 \/ (fired[i].ts = fired[j].ts /\ fired[i].uid < fired[j].uid)
    /\ \A i \in DOMAIN fired : \A e \in queue :
        \/ fired[i].ts < e.ts
        \/ (fired[i].ts = e.ts /\ fired[i].uid < e.uid)
    /\ fired # << >> => now = fired[Len(fired)].ts

\* Events of equal timestamp have been executed, one of them scheduled by a
\* running action, and so has a later event scheduled before them.
C6_Witness ==
    /\ \E i, j \in DOMAIN fired :
        /\ i < j
        /\ fired[i].ts = fired[j].ts
        /\ fired[j].uid >= Cardinality(InitialEvents)
    /\ \E i, j \in DOMAIN fired : i < j /\ fired[i].uid > fired[j].uid

----------------------------------------------------------------------------
(* Properties of the transform *)

\* C2: DecryptData applied to the value EncryptData stored returns the
\* original data.
C2_RoundTrip ==
    Len(decOut) >= 1 => decOut[1] = encIn.data

\* C3: the same wrapper presented to DecryptData a second time is rejected:
\* at most the first presentation returns a payload.
C3_ReplayRejected ==
    Len(decOut) <= 1

\* C10: called with the built-in key, EncryptData stores (data + key) mod
\* 2^16, a 16-bit value that differs from data, also when data + key
\* exceeds 65535.
C10_StoredValueWrapsAndDiffers ==
    (phase = "enc" /\ encIn.key = EncryptKey) =>
        /\ securePayload \in 0 .. (Word - 1)
        /\ securePayload = IF encIn.data + EncryptKey >= Word
                           THEN encIn.data + EncryptKey - Word
                           ELSE encIn.data + EncryptKey
        /\ securePayload # encIn.data

\* EncryptData was called with the built-in key on a data value whose sum
\* with the key exceeds 65535.
C10_Witness ==
    /\ phase = "enc"
    /\ encIn.key = EncryptKey
    /\ encIn.data + EncryptKey > Word - 1

====
